---- MODULE Spec2Model ----
(***************************************************************************)
(* VulnHunter: the single-file retrieval engine ContextFileRAG             *)
(* (src/poc_generator/rag_generator.py).                                   *)
(*                                                                         *)
(* Strings are sequences of one-character strings.  The long Russian       *)
(* literals of the source (the start marker, the end markers, the labels   *)
(* of a rendered record) are abbreviated to short stand-ins over a small   *)
(* alphabet: the algorithms only compare characters for equality and       *)
(* classify them as word characters or white space.  Floats are fixed      *)
(* point: IDF weights in units of 1/10, similarity scores in units of      *)
(* 1/ScoreScale, so scores that differ by less than the rounding of the    *)
(* weights may compare differently than in double precision.  Where the    *)
(* rounding of each operation matters (SpecCosine), _cosine_sim is instead *)
(* computed in a binary floating point format of FloatBits significant     *)
(* bits with round-to-nearest-even, as the doubles of the source are.      *)
(*                                                                         *)
(* SpecApp is the consumer of the engine in src/app.py: the pipeline       *)
(* store, the lazily built shared index and the handler of /7-get-exploit, *)
(* served by two threads that interleave statement by statement.           *)
(***************************************************************************)
EXTENDS Integers, Sequences, FiniteSets, TLC

VARIABLES
    path,          \* "text" (__init__) or "json" (from_json_file)
    params,        \* [max_chunk_chars, overlap_chars, paragraph_mode]
    chunks,        \* self.chunks: sequence of [text, tokens]
    idf,           \* self.idf: token -> weight
    df_cache,      \* self.df_cache (json path; the local df of _compute_idf on the text path)
    N,             \* self.N (json path), len(chunks) on the text path
    call,          \* the last query operation and its arguments
    scored,        \* retrieve: the slice scored[:top_k] of (index, score) pairs
    results,       \* retrieve: the returned sequence of (chunk, score)
    out,           \* generate_answer: the returned mapping
    w_text,        \* _sliding_windows: text
    w_i,           \* _sliding_windows: i
    w_res,         \* _sliding_windows: res
    w_spans,       \* history: the (i, j) of every window appended to res
    w_pc,          \* _sliding_windows: "loop", "done"
    w_ret,         \* _sliding_windows: the returned list
    x_text,        \* extract_after_marker: text
    x_span,        \* extract_after_marker: the returned span
    x_pc,          \* extract_after_marker: "call", "done"
    b_snippets,    \* generate_answer, budget loop: snippets
    b_max,         \* generate_answer, budget loop: max_context_chars
    b_out,         \* generate_answer, budget loop: the answer
    b_pc,          \* "call", "done"
    i_n,           \* the IDF formulas: N
    i_d,           \* the IDF formulas: the document frequency d of one token
    i_e,           \* the IDF formulas: the document frequency of another token
    i_text,        \* the weights of d and e by _compute_idf
    i_json,        \* the weights of d and e by _compute_idf_local
    i_pc,          \* "call", "done"
    c_a,           \* _cosine_sim: a dict in insertion order, a sequence of [t, v]
    c_b,           \* _cosine_sim: another dict
    c_ab,          \* _cosine_sim(a, b)
    c_ba,          \* _cosine_sim(b, a)
    c_aa,          \* _cosine_sim(a, a)
    c_pc,          \* "call", "done"
    locals,        \* concurrent queries: the frame of each caller's call
    built,         \* history: the chunks and idf of the instance as constructed
    PIPELINES,     \* app.py: PIPELINES, pipeline_id -> [cve_text, poc, status]
    RAG_INDEX,     \* app.py: RAG_INDEX, None or an engine instance
    corpus_file,   \* the file poc_generator/rag.txt
    frames,        \* the frame of each request handler inside GetExploit.post
    constructions, \* history: the number of instances from_json_file has returned
    failed,        \* history: a call of _get_rag_index has raised
    k_text,        \* _make_chunks: text, the raw context
    k_params,      \* _make_chunks: max_chunk_chars, overlap_chars, paragraph_mode of self
    k_chunks,      \* _make_chunks: the returned list
    k_pc           \* "call", "done"

vars == <<path, params, chunks, idf, df_cache, N, call, scored, results, out,
          w_text, w_i, w_res, w_spans, w_pc, w_ret,
          x_text, x_span, x_pc, b_snippets, b_max, b_out, b_pc,
          i_n, i_d, i_e, i_text, i_json, i_pc,
          c_a, c_b, c_ab, c_ba, c_aa, c_pc, locals, built,
          PIPELINES, RAG_INDEX, corpus_file, frames, constructions, failed,
          k_text, k_params, k_chunks, k_pc>>

engineVars == <<path, params, chunks, idf, df_cache, N>>
queryVars == <<call, scored, results, out>>
windowVars == <<w_text, w_i, w_res, w_spans, w_pc, w_ret>>
extractVars == <<x_text, x_span, x_pc>>
budgetVars == <<b_snippets, b_max, b_out, b_pc>>
idfVars == <<i_n, i_d, i_e, i_text, i_json, i_pc>>

\* the variables of the specifications of single functions below SpecBudget
cosVars == <<c_a, c_b, c_ab, c_ba, c_aa, c_pc>>
callerVars == <<locals, built>>
appVars == <<PIPELINES, RAG_INDEX, corpus_file, frames, constructions, failed>>
chunkVars == <<k_text, k_params, k_chunks, k_pc>>
auxVars == <<idfVars, cosVars, callerVars, appVars, chunkVars>>

----------------------------------------------------------------------------
(* Characters and Python's string primitives                               *)

UpperLetters == <<"A", "C", "T", "D", "G", "V", "L", "F", "P">>
LowerLetters == <<"a", "c", "t", "d", "g", "v", "l", "f", "p">>

\* str.lower() on one character
LowerChar(c) ==
    IF \E k \in 1..Len(UpperLetters) : UpperLetters[k] = c
    THEN LowerLetters[CHOOSE k \in 1..Len(UpperLetters) : UpperLetters[k] = c]
    ELSE c

\* the characters the regular expression class \w matches
WordChars ==
    {UpperLetters[k] : k \in 1..Len(UpperLetters)} \cup
    {LowerLetters[k] : k \in 1..Len(LowerLetters)} \cup
    {"b", "e", "y", "z", "x", "_", "1"}

\* the characters str.strip(), str.rstrip() and the class \s remove or match
WhiteSpace == {" ", "\n", "\t", "\r"}

\* the argument of lstrip("\n\r ")
LeadStripChars == {"\n", "\r", " "}

Min2(a, b) == IF a <= b THEN a ELSE b
Max2(a, b) == IF a >= b THEN a ELSE b

\* text[i:j] for 0-based i, j of either sign (Python slicing)
PyIndex(n, k) == IF k < 0 THEN Max2(n + k, 0) ELSE Min2(k, n)

PySlice(s, i, j) ==
    LET a == PyIndex(Len(s), i)
        b == PyIndex(Len(s), j)
    IN  IF a >= b THEN <<>> ELSE SubSeq(s, a + 1, b)

\* text.lower()
LowerStr(s) == [k \in 1..Len(s) |-> LowerChar(s[k])]

RECURSIVE LStripSet(_, _)
LStripSet(s, cs) ==
    IF s # <<>> /\ Head(s) \in cs THEN LStripSet(Tail(s), cs) ELSE s

RECURSIVE RStripSet(_, _)
RStripSet(s, cs) ==
    IF s # <<>> /\ s[Len(s)] \in cs THEN RStripSet(SubSeq(s, 1, Len(s) - 1), cs) ELSE s

\* str.strip()
Strip(s) == RStripSet(LStripSet(s, WhiteSpace), WhiteSpace)

\* str.rstrip()
RStrip(s) == RStripSet(s, WhiteSpace)

StartsWithAt(s, pat, k) ==
    /\ k + Len(pat) <= Len(s)
    /\ \A m \in 1..Len(pat) : s[k + m] = pat[m]

\* str.find(pat): the 0-based position of the first occurrence, or -1
RECURSIVE FindFrom(_, _, _)
FindFrom(s, pat, k) ==
    IF k + Len(pat) > Len(s) THEN -1
    ELSE IF StartsWithAt(s, pat, k) THEN k
    ELSE FindFrom(s, pat, k + 1)

Find(s, pat) == FindFrom(s, pat, 0)

\* sep.join(parts)
RECURSIVE Join(_, _)
Join(parts, sep) ==
    IF parts = <<>> THEN <<>>
    ELSE IF Len(parts) = 1 THEN parts[1]
    ELSE parts[1] \o sep \o Join(Tail(parts), sep)

\* [x for x in parts if x]
RECURSIVE NonEmpty(_)
NonEmpty(parts) ==
    IF parts = <<>> THEN <<>>
    ELSE IF Head(parts) = <<>> THEN NonEmpty(Tail(parts))
    ELSE <<Head(parts)>> \o NonEmpty(Tail(parts))

----------------------------------------------------------------------------
(* tokenize                                                                *)

\* re.split(r"[^\w]+", s): the pieces between maximal runs of non-word characters
RECURSIVE SplitNonWord(_, _)
SplitNonWord(s, cur) ==
    IF s = <<>> THEN <<cur>>
    ELSE IF Head(s) \in WordChars THEN SplitNonWord(Tail(s), Append(cur, Head(s)))
    ELSE <<cur>> \o SplitNonWord(LStripSet(s, {c \in {s[k] : k \in 1..Len(s)} : c \notin WordChars}), <<>>)

tokenize(text) == NonEmpty(SplitNonWord(LowerStr(text), <<>>))

----------------------------------------------------------------------------
(* Chunk builder                                                           *)

Chunk(text) == [text |-> text, tokens |-> tokenize(text)]

\* the position just after the last "\n" of the white-space run that starts s, or 0
RECURSIVE LastNewlineInRun(_, _, _)
LastNewlineInRun(s, k, last) ==
    IF k > Len(s) \/ s[k] \notin WhiteSpace THEN last
    ELSE LastNewlineInRun(s, k + 1, IF s[k] = "\n" THEN k ELSE last)

\* re.split(r"\n\s*\n", s)
RECURSIVE SplitBlankLines(_, _)
SplitBlankLines(s, cur) ==
    IF s = <<>> THEN <<cur>>
    ELSE LET e == LastNewlineInRun(Tail(s), 1, 0)
         IN  IF Head(s) = "\n" /\ e > 0
             THEN <<cur>> \o SplitBlankLines(SubSeq(s, e + 2, Len(s)), <<>>)
             ELSE SplitBlankLines(Tail(s), Append(cur, Head(s)))

\* re.sub(r"[ \t]+\n", "\n", s)
RECURSIVE DropBlanksBeforeNewline(_)
DropBlanksBeforeNewline(s) ==
    IF s = <<>> THEN <<>>
    ELSE IF Head(s) \in {" ", "\t"}
    THEN LET rest == LStripSet(s, {" ", "\t"})
             run == SubSeq(s, 1, Len(s) - Len(rest))
         IN  IF rest # <<>> /\ Head(rest) = "\n"
             THEN <<"\n">> \o DropBlanksBeforeNewline(Tail(rest))
             ELSE run \o DropBlanksBeforeNewline(rest)
    ELSE <<Head(s)>> \o DropBlanksBeforeNewline(Tail(s))

RECURSIVE NormalizeParagraphs(_)
NormalizeParagraphs(ps) ==
    IF ps = <<>> THEN <<>>
    ELSE IF Strip(Head(ps)) = <<>> THEN NormalizeParagraphs(Tail(ps))
    ELSE <<DropBlanksBeforeNewline(Strip(Head(ps)))>> \o NormalizeParagraphs(Tail(ps))

_split_paragraphs(text) == NormalizeParagraphs(SplitBlankLines(Strip(text), <<>>))

\* mutant: the step is j - overlap_chars, with no lower bound of i + 1
WindowStepNoGuard(text, mcc, ov, st) ==
    LET n == Len(text)
        j == Min2(st.i + mcc, n)
    IN  IF ~(st.i < n) THEN [st EXCEPT !.pc = "ret"]
        ELSE [i |-> IF j = n THEN st.i ELSE j - ov,
              res |-> Append(st.res, PySlice(text, st.i, j)),
              spans |-> Append(st.spans, <<st.i, j>>),
              pc |-> IF j = n THEN "ret" ELSE "loop"]

\* mutant: the next window starts one character behind the end of this one
WindowStepGap(text, mcc, ov, st) ==
    LET n == Len(text)
        j == Min2(st.i + mcc, n)
    IN  IF ~(st.i < n) THEN [st EXCEPT !.pc = "ret"]
        ELSE [i |-> IF j = n THEN st.i ELSE Max2(j - ov + 1, st.i + 1),
              res |-> Append(st.res, PySlice(text, st.i, j)),
              spans |-> Append(st.spans, <<st.i, j>>),
              pc |-> IF j = n THEN "ret" ELSE "loop"]

\* one evaluation of the loop condition and body of _sliding_windows
WindowStep(text, mcc, ov, st) ==
    LET n == Len(text)
        j == Min2(st.i + mcc, n)
    IN  IF ~(st.i < n) THEN [st EXCEPT !.pc = "ret"]
        ELSE [i |-> IF j = n THEN st.i ELSE Max2(j - ov, st.i + 1),
              res |-> Append(st.res, PySlice(text, st.i, j)),
              spans |-> Append(st.spans, <<st.i, j>>),
              pc |-> IF j = n THEN "ret" ELSE "loop"]

\* [s.strip() for s in res if s.strip()]
RECURSIVE StripNonEmpty(_)
StripNonEmpty(res) ==
    IF res = <<>> THEN <<>>
    ELSE IF Strip(Head(res)) = <<>> THEN StripNonEmpty(Tail(res))
    ELSE <<Strip(Head(res))>> \o StripNonEmpty(Tail(res))

WindowStart == [i |-> 0, res |-> <<>>, spans |-> <<>>, pc |-> "loop"]

RECURSIVE WindowRun(_, _, _, _)
WindowRun(text, mcc, ov, st) ==
    IF st.pc = "loop" THEN WindowRun(text, mcc, ov, WindowStep(text, mcc, ov, st)) ELSE st

_sliding_windows(text, mcc, ov) == StripNonEmpty(WindowRun(text, mcc, ov, WindowStart).res)

\* mutant: a paragraph is one chunk whatever its length
ChunkLongParagraphWhole(p, mcc, ov) == <<p>>

_chunk_long_paragraph(p, mcc, ov) ==
    IF Len(p) <= mcc THEN <<p>> ELSE _sliding_windows(p, mcc, ov)

RECURSIVE ChunkParagraphs(_, _, _)
ChunkParagraphs(ps, mcc, ov) ==
    IF ps = <<>> THEN <<>>
    ELSE _chunk_long_paragraph(Head(ps), mcc, ov) \o ChunkParagraphs(Tail(ps), mcc, ov)

\* [c for c in chunks if c.tokens]
RECURSIVE WithTokens(_)
WithTokens(cs) ==
    IF cs = <<>> THEN <<>>
    ELSE IF Head(cs).tokens = <<>> THEN WithTokens(Tail(cs))
    ELSE <<Head(cs)>> \o WithTokens(Tail(cs))

_make_chunks(text, prm) ==
    LET raw_chunks ==
            IF prm.paragraph_mode
            THEN ChunkParagraphs(_split_paragraphs(text), prm.max_chunk_chars, prm.overlap_chars)
            ELSE _sliding_windows(text, prm.max_chunk_chars, prm.overlap_chars)
    IN  WithTokens([k \in 1..Len(raw_chunks) |-> Chunk(raw_chunks[k])])

----------------------------------------------------------------------------
(* Corpus loader: one JSON record = one chunk                              *)

\* stand-ins for the literals of render_entry_to_text
LblCve == <<"C", ":", " ">>
LblName == <<"T", ":", " ">>
LblDesc == <<"D", ":", " ">>
LblTags == <<"G", ":", " ">>
LblVuln == <<"V", ":">>
LblLang == <<"-", " ", "L", ":", " ">>
LblFile == <<"-", " ", "F", ":", " ">>
LblNote == <<"e", ":", " ">>

\* "Пример эксплуатации (без вредоносной нагрузки):"
Marker == <<"P", ":">>

\* ["Примечание:", "Примечания:"]
EndMarkers == << <<"e", ":">>, <<"y", ":">> >>

Labelled(lbl, v) == IF v # <<>> THEN lbl \o v ELSE <<>>

render_entry_to_text(e) ==
    LET tags == Join(e.tags, <<",", " ">>)
        lines == << Labelled(LblCve, e.cve_id),
                    Labelled(LblName, e.name),
                    Labelled(LblDesc, e.short_description),
                    Labelled(LblTags, tags),
                    LblVuln,
                    Labelled(LblLang, e.vuln_language),
                    Labelled(LblFile, e.vuln_filename),
                    Strip(e.vuln_code),
                    Marker,
                    Labelled(LblLang, e.exp_language),
                    Labelled(LblFile, e.exp_filename),
                    Strip(e.exp_code),
                    Labelled(LblNote, e.exp_note) >>
    IN  Join(NonEmpty(lines), <<"\n">>)

load_chunks_from_json_file(entries) ==
    [k \in 1..Len(entries) |-> Chunk(render_entry_to_text(entries[k]))]

----------------------------------------------------------------------------
(* Index                                                                   *)

\* math.log: round(Micro * ln(k)) for k = 1..64
LnMicro ==
    << 0, 693147, 1098612, 1386294, 1609438, 1791759, 1945910, 2079442,
       2197225, 2302585, 2397895, 2484907, 2564949, 2639057, 2708050, 2772589,
       2833213, 2890372, 2944439, 2995732, 3044522, 3091042, 3135494, 3178054,
       3218876, 3258097, 3295837, 3332205, 3367296, 3401197, 3433987, 3465736,
       3496508, 3526361, 3555348, 3583519, 3610918, 3637586, 3663562, 3688879,
       3713572, 3737670, 3761200, 3784190, 3806662, 3828641, 3850148, 3871201,
       3891820, 3912023, 3931826, 3951244, 3970292, 3988984, 4007333, 4025352,
       4043051, 4060443, 4077537, 4094345, 4110874, 4127134, 4143135, 4158883 >>

\* logarithms are computed in units of 1/Micro
Micro == 1000000

\* math.log(q.num / q.den)
Log(q) == LnMicro[q.num] - LnMicro[q.den]

\* (N + 1) / (d + 0.5), numerator and denominator doubled
QuotText(n, d) == [num |-> 2 * (n + 1), den |-> 2 * d + 1]

\* mutant: the quotient of the BM25 formula without its + 1.0
QuotJsonNoSmoothing(n, d) == [num |-> 2 * (n - d) + 1, den |-> 2 * d + 1]

\* (N - d + 0.5) / (d + 0.5) + 1.0, numerator and denominator doubled
QuotJson(n, d) == [num |-> (2 * (n - d) + 1) + (2 * d + 1), den |-> 2 * d + 1]

\* math.log((N + 1) / (d + 0.5)) + 1.0
IdfTextMicro(n, d) == Log(QuotText(n, d)) + Micro

\* math.log((N - d + 0.5) / (d + 0.5) + 1.0)
IdfJsonMicro(n, d) == Log(QuotJson(n, d))

\* the weights the engine stores are rounded to units of 1/10
RoundTenth(x) == (x + Micro \div 20) \div (Micro \div 10)

IdfText(n, d) == RoundTenth(IdfTextMicro(n, d))
IdfJson(n, d) == RoundTenth(IdfJsonMicro(n, d))

\* set(ch.tokens)
TokenSet(tokens) == {tokens[k] : k \in 1..Len(tokens)}

\* for t in <tokens>: df[t] = df.get(t, 0) + 1
RECURSIVE BumpAll(_, _)
BumpAll(df, ts) ==
    IF ts = {} THEN df
    ELSE LET t == CHOOSE u \in ts : TRUE
             old == IF t \in DOMAIN df THEN df[t] ELSE 0
             new == [u \in DOMAIN df \cup {t} |-> IF u = t THEN old + 1 ELSE df[u]]
         IN  BumpAll(new, ts \ {t})

\* the tokens one chunk contributes to the document frequencies
DfTokensOf(ch) == TokenSet(ch.tokens)

\* mutant: every occurrence of a token counts, not every chunk
RECURSIVE BumpEach(_, _)
BumpEach(df, tokens) ==
    IF tokens = <<>> THEN df ELSE BumpEach(BumpAll(df, {Head(tokens)}), Tail(tokens))

RECURSIVE DfLoopOccurrences(_, _)
DfLoopOccurrences(df, cs) ==
    IF cs = <<>> THEN df ELSE DfLoopOccurrences(BumpEach(df, Head(cs).tokens), Tail(cs))

RECURSIVE DfLoop(_, _)
DfLoop(df, cs) ==
    IF cs = <<>> THEN df ELSE DfLoop(BumpAll(df, DfTokensOf(Head(cs))), Tail(cs))

EmptyMap == [t \in {} |-> 0]

_build_df_local(cs) == DfLoop(EmptyMap, cs)

_compute_idf_local(n, df) == [t \in DOMAIN df |-> IdfJson(n, df[t])]

_compute_idf(cs) ==
    LET df == DfLoop(EmptyMap, cs)
    IN  [t \in DOMAIN df |-> IdfText(Len(cs), df[t])]

----------------------------------------------------------------------------
(* TF-IDF vectors and cosine similarity                                    *)

Count(tokens, t) == Cardinality({k \in 1..Len(tokens) : tokens[k] = t})

\* the term frequencies, as numerators over the common denominator total
_tf(tokens) ==
    [num |-> [t \in TokenSet(tokens) |-> Count(tokens, t)],
     total |-> IF Len(tokens) = 0 THEN 1 ELSE Len(tokens)]

\* self.idf.get(t, 0.0)
IdfGet(index, t) == IF t \in DOMAIN index THEN index[t] ELSE 0

\* entry t has the value num[t] / (10 * total)
_tfidf_vec(index, tokens) ==
    LET tf == _tf(tokens)
    IN  [num |-> [t \in DOMAIN tf.num |-> tf.num[t] * IdfGet(index, t)],
         total |-> tf.total]

RECURSIVE SumOver(_, _)
SumOver(f, ks) ==
    IF ks = {} THEN 0
    ELSE LET k == CHOOSE u \in ks : TRUE IN f[k] + SumOver(f, ks \ {k})

Dot(a, b) ==
    LET both == DOMAIN a.num \cap DOMAIN b.num
    IN  SumOver([t \in both |-> a.num[t] * b.num[t]], both)

NormSq(a) == SumOver([t \in DOMAIN a.num |-> a.num[t] * a.num[t]], DOMAIN a.num)

RECURSIVE ISqrtIn(_, _, _)
ISqrtIn(x, lo, hi) ==
    IF lo >= hi THEN lo
    ELSE LET mid == (lo + hi + 1) \div 2
         IN  IF mid * mid <= x THEN ISqrtIn(x, mid, hi) ELSE ISqrtIn(x, lo, mid - 1)

\* floor(sqrt(x)) for 0 <= x < 2^31
ISqrt(x) == ISqrtIn(x, 0, 46340)

\* scores are stored in units of 1/ScoreScale
ScoreScale == 100000

\* floor(ScoreScale * num / den), by long division in two steps
FixDiv(num, den) ==
    LET lo == ScoreScale \div 1000
        q == (num * 1000) \div den
        r == (num * 1000) % den
    IN  q * lo + (r * lo) \div den

\* dot / (na * nb); the common denominators of the entries cancel
_cosine_sim(a, b) ==
    IF DOMAIN a.num = {} \/ DOMAIN b.num = {} THEN 0
    ELSE IF NormSq(a) = 0 \/ NormSq(b) = 0 THEN 0
    ELSE FixDiv(Dot(a, b), ISqrt(NormSq(a) * NormSq(b)))

----------------------------------------------------------------------------
(* _cosine_sim in floating point.  A Python float is an IEEE 754 binary    *)
(* number: every operation returns its exact result rounded to the nearest *)
(* number with a significand of 53 bits, ties to even.  The model keeps    *)
(* the operations, their order and the rounding rule, with a significand   *)
(* of FloatBits bits; a float x >= 0 is the integer x * 2^FracBits.        *)

FloatBits == 4
FracBits == 6

\* 1.0
One == 2 ^ FracBits

\* the exponent of num/den: the least e >= 0 with num/den < 2^(FloatBits + e)
RECURSIVE ExpOf(_, _, _)
ExpOf(num, den, e) ==
    IF num < den * 2 ^ (FloatBits + e) THEN e ELSE ExpOf(num, den, e + 1)

\* num/den rounded to the nearest integer, ties to even
RoundHalfEven(num, den) ==
    LET q == num \div den
        r == num % den
    IN  IF 2 * r > den \/ (2 * r = den /\ q % 2 = 1) THEN q + 1 ELSE q

\* num/den rounded to the nearest float
Fl(num, den) ==
    LET e == ExpOf(num, den, 0)
    IN  RoundHalfEven(num, den * 2 ^ e) * 2 ^ e

\* x * y, x + y, x / y
FMul(x, y) == Fl(x * y, One)
FAdd(x, y) == Fl(x + y, 1)
FDiv(x, y) == Fl(x * One, y)

\* math.sqrt(x): the square root of x, correctly rounded
FSqrt(x) ==
    LET sq == x * One
        e == ExpOf(ISqrt(sq), 1, 0)
        m == ISqrt(sq \div 4 ^ e)
        mid == (2 * m + 1) * (2 * m + 1) * 4 ^ e
        up == 4 * sq > mid \/ (4 * sq = mid /\ m % 2 = 1)
    IN  (IF up THEN m + 1 ELSE m) * 2 ^ e

\* b.get(t): the position of t in the dict, 0 for None
RECURSIVE DictFind(_, _, _)
DictFind(b, t, k) ==
    IF k > Len(b) THEN 0
    ELSE IF b[k].t = t THEN k ELSE DictFind(b, t, k + 1)

\* dot = 0.0; for t, v in a.items(): bv = b.get(t); if bv is not None: dot += v * bv
RECURSIVE FDot(_, _, _, _)
FDot(a, b, k, dot) ==
    IF k > Len(a) THEN dot
    ELSE LET pos == DictFind(b, a[k].t, 1)
         IN  FDot(a, b, k + 1, IF pos = 0 THEN dot ELSE FAdd(dot, FMul(a[k].v, b[pos].v)))

\* sum(v * v for v in a.values())
RECURSIVE FSumSq(_, _, _)
FSumSq(a, k, acc) ==
    IF k > Len(a) THEN acc ELSE FSumSq(a, k + 1, FAdd(acc, FMul(a[k].v, a[k].v)))

\* _cosine_sim on dicts of floats
CosineSimFloat(a, b) ==
    IF a = <<>> \/ b = <<>> THEN 0
    ELSE LET dot == FDot(a, b, 1, 0)
             na == FSqrt(FSumSq(a, 1, 0))
             nb == FSqrt(FSumSq(b, 1, 0))
         IN  IF na = 0 \/ nb = 0 THEN 0 ELSE FDiv(dot, FMul(na, nb))

----------------------------------------------------------------------------
(* Ranker                                                                  *)

\* mutant: a chunk of similarity 0 is kept
KeepNonNegative(sc) == sc >= 0

\* s > 0.0
Keep(sc) == sc > 0

\* for i, ch in enumerate(self.chunks): ... if s > 0.0: scored.append((i, s))
RECURSIVE ScoreLoop(_, _, _, _)
ScoreLoop(cs, index, q_vec, k) ==
    IF k > Len(cs) THEN <<>>
    ELSE LET sc == _cosine_sim(q_vec, _tfidf_vec(index, cs[k].tokens))
         IN  (IF Keep(sc) THEN << [i |-> k - 1, score |-> sc] >> ELSE <<>>)
                 \o ScoreLoop(cs, index, q_vec, k + 1)

\* mutant: the pair replaces the list instead of being appended to it
ScoreStepKeepLast(f, cs, index) ==
    LET sc == _cosine_sim(f.q_vec, _tfidf_vec(index, cs[f.k + 1].tokens))
    IN  [f EXCEPT !.k = f.k + 1,
                  !.scored = IF Keep(sc) THEN << [i |-> f.k, score |-> sc] >> ELSE @]

\* one pass of the loop of retrieve in the frame f: chunk number f.k is scored
ScoreStep(f, cs, index) ==
    LET sc == _cosine_sim(f.q_vec, _tfidf_vec(index, cs[f.k + 1].tokens))
    IN  [f EXCEPT !.k = f.k + 1,
                  !.scored = IF Keep(sc) THEN Append(@, [i |-> f.k, score |-> sc]) ELSE @]

\* mutant: an unstable sort, equal keys end up in reverse order
RECURSIVE InsertDescUnstable(_, _)
InsertDescUnstable(sorted, x) ==
    IF sorted = <<>> THEN <<x>>
    ELSE IF Head(sorted).score > x.score
    THEN <<Head(sorted)>> \o InsertDescUnstable(Tail(sorted), x)
    ELSE <<x>> \o sorted

\* x goes behind every element whose key is not smaller: equal keys keep their order
RECURSIVE InsertDesc(_, _)
InsertDesc(sorted, x) ==
    IF sorted = <<>> THEN <<x>>
    ELSE IF Head(sorted).score >= x.score THEN <<Head(sorted)>> \o InsertDesc(Tail(sorted), x)
    ELSE <<x>> \o sorted

\* scored.sort(key=lambda x: x[1], reverse=True): a stable sort
RECURSIVE SortDesc(_, _)
SortDesc(xs, acc) ==
    IF xs = <<>> THEN acc ELSE SortDesc(Tail(xs), InsertDesc(acc, Head(xs)))

\* scored[:top_k]
Truncate(xs, top_k) == PySlice(xs, 0, top_k)

\* the list scored after the sort
Scored(cs, index, query) ==
    SortDesc(ScoreLoop(cs, index, _tfidf_vec(index, tokenize(query)), 1), <<>>)

\* the (index, score) pairs behind the returned list
RetrieveIdx(cs, index, query, top_k) == Truncate(Scored(cs, index, query), top_k)

\* [(self.chunks[i], score) for i, score in scored[:top_k]]
WithChunks(cs, top) ==
    [k \in 1..Len(top) |-> [chunk |-> cs[top[k].i + 1], score |-> top[k].score]]

retrieve(cs, index, query, top_k) == WithChunks(cs, RetrieveIdx(cs, index, query, top_k))

----------------------------------------------------------------------------
(* Answer extractor                                                        *)

\* a Python string that is either text or one of the fixed messages
Text(cs) == [msg |-> "", chars |-> cs]
Message(id) == [msg |-> id, chars |-> <<>>]

\* "Не удалось найти релевантный контекст для ответа."
MsgNoContext == Message("no_relevant_context")
\* "Контекст найден, но в нём нет секции после требуемого маркера."
MsgNoSection == Message("no_section_after_marker")
\* "Контекст найден, но не удалось извлечь нужный фрагмент."
MsgNoFragment == Message("no_fragment_extracted")

LenMsgNoContext == 49
LenMsgNoSection == 62
LenMsgNoFragment == 55

\* len(s)
StrLen(s) ==
    IF s.msg = "" THEN Len(s.chars)
    ELSE IF s = MsgNoContext THEN LenMsgNoContext
    ELSE IF s = MsgNoSection THEN LenMsgNoSection
    ELSE LenMsgNoFragment

\* mutant: the first end marker of the list that occurs decides, not the nearest
RECURSIVE CutPosFirstListed(_, _, _)
CutPosFirstListed(tail, ems, cut_pos) ==
    IF ems = <<>> THEN cut_pos
    ELSE IF Find(tail, Head(ems)) # -1 THEN Find(tail, Head(ems))
    ELSE CutPosFirstListed(tail, Tail(ems), cut_pos)

\* for em in end_markers: pos = tail.find(em) ...
RECURSIVE CutPos(_, _, _)
CutPos(tail, ems, cut_pos) ==
    IF ems = <<>> THEN cut_pos
    ELSE LET pos == Find(tail, Head(ems))
         IN  CutPos(tail, Tail(ems),
                    IF pos # -1
                    THEN (IF cut_pos = -1 THEN pos ELSE Min2(cut_pos, pos))
                    ELSE cut_pos)

\* cut_pos is None is modelled as cut_pos = -1
extract_after_marker(text) ==
    LET start == Find(text, Marker)
        tail == LStripSet(SubSeq(text, start + Len(Marker) + 1, Len(text)), LeadStripChars)
        cut_pos == CutPos(tail, EndMarkers, -1)
    IN  IF start = -1 THEN <<>>
        ELSE IF cut_pos # -1 THEN RStrip(SubSeq(tail, 1, cut_pos))
        ELSE tail

PreviewLen == 120

\* ch.text[:120] + ("..." if len(ch.text) > 120 else "")
Preview(text) ==
    PySlice(text, 0, PreviewLen) \o (IF Len(text) > PreviewLen THEN <<".", ".", ".">> ELSE <<>>)

\* round(score, 4), in units of 1/10000
Round4(sc) ==
    LET unit == ScoreScale \div 10000
    IN  (sc + unit \div 2) \div unit

DebugEntry(r) == [score |-> Round4(r.score), snippet |-> Preview(r.chunk.text)]

\* the value of the "debug" entry: the empty string, or json.dumps({"scores": ...})
DebugEmpty == [json |-> FALSE, scores |-> <<>>]
DebugJson(scores) == [json |-> TRUE, scores |-> scores]

RECURSIVE Snippets(_)
Snippets(retrieved) ==
    IF retrieved = <<>> THEN <<>>
    ELSE LET part == extract_after_marker(Head(retrieved).chunk.text)
         IN  (IF part # <<>> THEN <<part>> ELSE <<>>) \o Snippets(Tail(retrieved))

\* whether snippet s still goes in whole behind context
Fits(context, s, max_context_chars) == ~(Len(context) + Len(s) + 2 > max_context_chars)

\* mutant: the cut takes max_context_chars characters of the span, whatever
\* the context already holds
RECURSIVE BudgetLoopCutAtMax(_, _, _)
BudgetLoopCutAtMax(snippets, context, max_context_chars) ==
    IF snippets = <<>> THEN context
    ELSE LET s == Head(snippets)
         IN  IF Len(context) + Len(s) + 2 > max_context_chars
             THEN context \o PySlice(s, 0, max_context_chars)
             ELSE BudgetLoopCutAtMax(Tail(snippets), context \o s \o <<"\n", "\n">>,
                                     max_context_chars)

\* for s in snippets: ... the budget loop
RECURSIVE BudgetLoop(_, _, _)
BudgetLoop(snippets, context, max_context_chars) ==
    IF snippets = <<>> THEN context
    ELSE LET s == Head(snippets)
             remaining == max_context_chars - Len(context) - 2
         IN  IF ~Fits(context, s, max_context_chars)
             THEN (IF remaining > 0 THEN context \o PySlice(s, 0, remaining) ELSE context)
             ELSE BudgetLoop(Tail(snippets), context \o s \o <<"\n", "\n">>, max_context_chars)

\* answer = context.strip() if context.strip() else "<message>"
AnswerOf(snippets, max_context_chars) ==
    LET context == BudgetLoop(snippets, <<>>, max_context_chars)
    IN  IF Strip(context) # <<>> THEN Text(Strip(context)) ELSE MsgNoFragment

\* mutant: one message for both empty results, and no trace without a span
AnswerFromOneMessage(retrieved, max_context_chars, return_debug) ==
    LET debug_scores == [k \in 1..Len(retrieved) |-> DebugEntry(retrieved[k])]
        snippets == Snippets(retrieved)
        answer == AnswerOf(snippets, max_context_chars)
    IN  IF retrieved = <<>> \/ snippets = <<>>
        THEN [answer |-> MsgNoContext, context |-> Text(<<>>), has_debug |-> TRUE,
              debug |-> IF return_debug THEN DebugJson(<<>>) ELSE DebugEmpty]
        ELSE [answer |-> answer, context |-> answer, has_debug |-> return_debug,
              debug |-> IF return_debug THEN DebugJson(debug_scores) ELSE DebugEmpty]

\* generate_answer from the retrieved list on; has_debug tells whether the
\* returned dict has a "debug" key
AnswerFrom(retrieved, max_context_chars, return_debug) ==
    LET debug_scores == [k \in 1..Len(retrieved) |-> DebugEntry(retrieved[k])]
        snippets == Snippets(retrieved)
        answer == AnswerOf(snippets, max_context_chars)
    IN  IF retrieved = <<>>
        THEN [answer |-> MsgNoContext, context |-> Text(<<>>), has_debug |-> TRUE,
              debug |-> IF return_debug THEN DebugJson(<<>>) ELSE DebugEmpty]
        ELSE IF snippets = <<>>
        THEN [answer |-> MsgNoSection, context |-> Text(<<>>), has_debug |-> TRUE,
              debug |-> IF return_debug THEN DebugJson(debug_scores) ELSE DebugEmpty]
        ELSE [answer |-> answer, context |-> answer, has_debug |-> return_debug,
              debug |-> IF return_debug THEN DebugJson(debug_scores) ELSE DebugEmpty]

generate_answer(cs, index, question, top_k, max_context_chars, return_debug) ==
    AnswerFrom(retrieve(cs, index, question, top_k), max_context_chars, return_debug)

----------------------------------------------------------------------------
(* Bounds and the inputs drawn from them                                   *)

MaxEntries == 2        \* records of a JSON corpus
MaxParas == 2          \* paragraphs of a text corpus
MaxTopK == 2           \* top_k ranges over -2..MaxTopK
MaxBudget == 5         \* max_context_chars ranges over 0..MaxBudget
MaxWinText == 5        \* length of the text given to _sliding_windows
MaxWin == 3            \* max_chunk_chars and overlap_chars range over -1..MaxWin
MaxText == 6           \* length of the text given to extract_after_marker
MaxSnippets == 2       \* number of extracted spans in the budget loop
MaxSnippetLen == 3     \* length of one extracted span
MaxBudgetB == 8        \* max_context_chars of the budget loop ranges over 0..MaxBudgetB
MaxN == 8              \* the IDF formulas are evaluated for N in 1..MaxN
MaxRaw == 5            \* length of the raw text given to _make_chunks

\* all strings over cs of length lo..hi
Strings(cs, lo, hi) == UNION {[1..n -> cs] : n \in lo..hi}

\* all sequences over S of length lo..hi
SeqsOf(S, lo, hi) == UNION {[1..n -> S] : n \in lo..hi}

Rec(name, tags, code, note) ==
    [cve_id |-> <<>>, name |-> name, short_description |-> <<>>, tags |-> tags,
     vuln_language |-> <<>>, vuln_filename |-> <<>>, vuln_code |-> <<>>,
     exp_language |-> <<>>, exp_filename |-> <<>>, exp_code |-> code, exp_note |-> note]

Records ==
    { Rec(<<"a">>, <<>>, <<"x">>, <<"b">>),
      Rec(<<"A">>, <<>>, <<" ", "x", "\n">>, <<>>),
      Rec(<<"b", " ", "a">>, << <<"z">>, <<"a">> >>, <<"y", ":", "x">>, <<>>),
      Rec(<<"b">>, <<>>, <<>>, <<>>) }

Paragraphs ==
    { <<"a">>,
      <<"b", " ", "A", " ", "\n", "a">>,
      <<"a", " ", "P", ":", " ", "x", " ", "e", ":", "b">>,
      <<"b", "P", ":", "\t", "x">>,
      <<".", ".">> }

ParagraphBreaks == { <<"\n", "\n">>, <<" ", "\n", " ", "\n", "\n">> }

TextCorpora ==
    {Join(ps, br) : ps \in SeqsOf(Paragraphs, 0, MaxParas), br \in ParagraphBreaks}

TextParams ==
    {[max_chunk_chars |-> m[1], overlap_chars |-> m[2], paragraph_mode |-> pm] :
        m \in {<<4, 1>>, <<12, 0>>}, pm \in BOOLEAN}

\* the arguments app.py gives from_json_file
JsonParams == [max_chunk_chars |-> 400, overlap_chars |-> 0, paragraph_mode |-> TRUE]

Queries ==
    { <<>>, <<"a">>, <<"A", " ", "b">>, <<"z">>, <<"a", ".", "z">>, <<"x">> }

TopKs == (0 - 2)..MaxTopK

Idle == [op |-> "none"]

----------------------------------------------------------------------------
(* Spec: an engine instance and the queries put to it                      *)

\* ContextFileRAG.__init__
InitText ==
    \E raw \in TextCorpora, prm \in TextParams :
        LET cs == _make_chunks(raw, prm)
        IN  /\ path = "text"
            /\ params = prm
            /\ chunks = cs
            /\ idf = _compute_idf(cs)
            /\ df_cache = DfLoop(EmptyMap, cs)
            /\ N = Len(cs)

\* ContextFileRAG.from_json_file
InitJson ==
    \E entries \in SeqsOf(Records, 0, MaxEntries) :
        LET cs == load_chunks_from_json_file(entries)
            n == Max2(Len(cs), 1)
            df == _build_df_local(cs)
        IN  /\ path = "json"
            /\ params = JsonParams
            /\ chunks = cs
            /\ N = n
            /\ df_cache = df
            /\ idf = _compute_idf_local(n, df)

WindowIdle ==
    /\ w_text = <<>> /\ w_i = 0 /\ w_res = <<>> /\ w_spans = <<>>
    /\ w_pc = "done" /\ w_ret = <<>>

ExtractIdle == x_text = <<>> /\ x_span = <<>> /\ x_pc = "done"

BudgetIdle == b_snippets = <<>> /\ b_max = 0 /\ b_out = Text(<<>>) /\ b_pc = "done"

NoOut ==
    [answer |-> Text(<<>>), context |-> Text(<<>>), has_debug |-> FALSE, debug |-> DebugEmpty]

IdfIdle ==
    /\ i_n = 1 /\ i_d = 0 /\ i_e = 0 /\ i_text = <<0, 0>> /\ i_json = <<0, 0>>
    /\ i_pc = "done"

CosIdle ==
    /\ c_a = <<>> /\ c_b = <<>> /\ c_ab = 0 /\ c_ba = 0 /\ c_aa = 0 /\ c_pc = "done"

\* the threads that call into one engine instance
Callers == {"c1", "c2"}

\* the frame of a caller that is not inside a call
IdleFrame ==
    [pc |-> "idle", op |-> "none", query |-> <<>>, top_k |-> 0, max_context_chars |-> 0,
     return_debug |-> FALSE, q_vec |-> _tfidf_vec(EmptyMap, <<>>), k |-> 0,
     scored |-> <<>>, results |-> <<>>, out |-> NoOut]

CallersIdle ==
    /\ locals = [c \in Callers |-> IdleFrame]
    /\ built = [chunks |-> <<>>, idf |-> EmptyMap]

\* None
NoneVal == [kind |-> "None"]

\* the threads of the server inside GetExploit.post
Handlers == {"h1", "h2"}

\* the frame of a handler that serves no request
NoRequest ==
    [pc |-> "idle", pipeline_id |-> "", had_poc |-> FALSE, query |-> <<>>, exploit |-> NoneVal,
     debug |-> NoneVal, instance |-> NoneVal, rag |-> NoneVal, queried |-> FALSE, code |-> 0]

AppIdle ==
    /\ PIPELINES = [id \in {} |-> NoneVal]
    /\ RAG_INDEX = NoneVal
    /\ corpus_file = [state |-> "missing"]
    /\ frames = [h \in Handlers |-> NoRequest]
    /\ constructions = 0
    /\ failed = FALSE

ChunksIdle ==
    /\ k_text = <<>>
    /\ k_params = [max_chunk_chars |-> 1, overlap_chars |-> 0, paragraph_mode |-> TRUE]
    /\ k_chunks = <<>>
    /\ k_pc = "done"

AuxIdle == IdfIdle /\ CosIdle /\ CallersIdle /\ AppIdle /\ ChunksIdle

QueryIdle ==
    /\ call = Idle /\ scored = <<>> /\ results = <<>>
    /\ out = [answer |-> Text(<<>>), context |-> Text(<<>>), has_debug |-> FALSE,
              debug |-> [json |-> FALSE, scores |-> <<>>]]

Init ==
    /\ (InitText \/ InitJson)
    /\ QueryIdle
    /\ WindowIdle /\ ExtractIdle /\ BudgetIdle /\ AuxIdle

Retrieve ==
    /\ call = Idle
    /\ \E query \in Queries, top_k \in TopKs :
        /\ call' = [op |-> "retrieve", query |-> query, top_k |-> top_k]
        /\ scored' = RetrieveIdx(chunks, idf, query, top_k)
        /\ results' = WithChunks(chunks, scored')
    /\ UNCHANGED <<out, engineVars, windowVars, extractVars, budgetVars, auxVars>>

\* generate_answer; scored and results hold what its call of retrieve returned
GenerateAnswer ==
    /\ call = Idle
    /\ \E question \in Queries, top_k \in TopKs, max_context_chars \in 0..MaxBudget,
          return_debug \in BOOLEAN :
        /\ call' = [op |-> "generate_answer", query |-> question, top_k |-> top_k,
                    max_context_chars |-> max_context_chars, return_debug |-> return_debug]
        /\ scored' = RetrieveIdx(chunks, idf, question, top_k)
        /\ results' = WithChunks(chunks, scored')
        /\ out' = AnswerFrom(results', max_context_chars, return_debug)
    /\ UNCHANGED <<engineVars, windowVars, extractVars, budgetVars, auxVars>>

\* the caller takes the result; the next query starts from the same instance
Return ==
    /\ call # Idle
    /\ call' = Idle
    /\ scored' = <<>>
    /\ results' = <<>>
    /\ out' = NoOut
    /\ UNCHANGED <<engineVars, windowVars, extractVars, budgetVars, auxVars>>

Next == Retrieve \/ GenerateAnswer \/ Return

Spec == Init /\ [][Next]_vars

----------------------------------------------------------------------------
(* SpecWindows: the loop of _sliding_windows, one iteration per step       *)

EngineIdle ==
    /\ path = "none" /\ chunks = <<>> /\ idf = EmptyMap /\ df_cache = EmptyMap /\ N = 0

WinChars == {"a", "b", " "}

InitWindows ==
    /\ EngineIdle
    /\ params \in [max_chunk_chars : (0 - 1)..MaxWin, overlap_chars : (0 - 1)..MaxWin,
                   paragraph_mode : {FALSE}]
    /\ w_text \in Strings(WinChars, 0, MaxWinText)
    /\ w_i = 0 /\ w_res = <<>> /\ w_spans = <<>> /\ w_pc = "loop" /\ w_ret = <<>>
    /\ QueryIdle /\ ExtractIdle /\ BudgetIdle /\ AuxIdle

WinState == [i |-> w_i, res |-> w_res, spans |-> w_spans, pc |-> w_pc]

\* while i < n: one pass through the body
SlidingIterate ==
    /\ w_pc = "loop"
    /\ w_i < Len(w_text)
    /\ LET st == WindowStep(w_text, params.max_chunk_chars, params.overlap_chars, WinState)
       IN  /\ w_i' = st.i
           /\ w_res' = st.res
           /\ w_spans' = st.spans
           /\ w_pc' = st.pc
    /\ UNCHANGED <<w_text, w_ret, engineVars, queryVars, extractVars, budgetVars, auxVars>>

\* while i < n: the condition is false
SlidingExit ==
    /\ w_pc = "loop"
    /\ ~(w_i < Len(w_text))
    /\ w_pc' = "ret"
    /\ UNCHANGED <<w_text, w_i, w_res, w_spans, w_ret, engineVars, queryVars, extractVars,
                   budgetVars, auxVars>>

\* return [s.strip() for s in res if s.strip()]
SlidingReturn ==
    /\ w_pc = "ret"
    /\ w_ret' = StripNonEmpty(w_res)
    /\ w_pc' = "done"
    /\ UNCHANGED <<w_text, w_i, w_res, w_spans, engineVars, queryVars, extractVars, budgetVars, auxVars>>

NextWindows == SlidingIterate \/ SlidingExit \/ SlidingReturn

SpecWindows == InitWindows /\ [][NextWindows]_vars /\ WF_vars(NextWindows)

----------------------------------------------------------------------------
(* SpecExtract: extract_after_marker on every short text                   *)

ExtractChars == {"P", ":", "e", "y", " ", "\t"}

InitExtract ==
    /\ EngineIdle /\ params = JsonParams
    /\ x_text \in Strings(ExtractChars, 0, MaxText)
    /\ x_span = <<>> /\ x_pc = "call"
    /\ QueryIdle /\ WindowIdle /\ BudgetIdle /\ AuxIdle

Extract ==
    /\ x_pc = "call"
    /\ x_span' = extract_after_marker(x_text)
    /\ x_pc' = "done"
    /\ UNCHANGED <<x_text, engineVars, queryVars, windowVars, budgetVars, auxVars>>

NextExtract == Extract

SpecExtract == InitExtract /\ [][NextExtract]_vars

----------------------------------------------------------------------------
(* SpecBudget: the budget loop of generate_answer on extracted spans       *)

SnippetChars == {"x", "\t"}

\* an extracted span is not empty and starts with none of "\n", "\r", " "
SnippetSet == Strings(SnippetChars, 1, MaxSnippetLen)

InitBudget ==
    /\ EngineIdle /\ params = JsonParams
    /\ b_snippets \in SeqsOf(SnippetSet, 1, MaxSnippets)
    /\ b_max \in 0..MaxBudgetB
    /\ b_out = Text(<<>>) /\ b_pc = "call"
    /\ QueryIdle /\ WindowIdle /\ ExtractIdle /\ AuxIdle

Answer ==
    /\ b_pc = "call"
    /\ b_out' = AnswerOf(b_snippets, b_max)
    /\ b_pc' = "done"
    /\ UNCHANGED <<b_snippets, b_max, engineVars, queryVars, windowVars, extractVars, auxVars>>

NextBudget == Answer

SpecBudget == InitBudget /\ [][NextBudget]_vars

----------------------------------------------------------------------------
(* SpecIdf: the two IDF formulas for two tokens of one index               *)

InitIdf ==
    /\ EngineIdle /\ params = JsonParams
    /\ i_n \in 1..MaxN
    /\ i_d \in 0..i_n
    /\ i_e \in 0..i_n
    /\ i_text = <<0, 0>> /\ i_json = <<0, 0>> /\ i_pc = "call"
    /\ QueryIdle /\ WindowIdle /\ ExtractIdle /\ BudgetIdle /\ CosIdle /\ CallersIdle
    /\ AppIdle /\ ChunksIdle

\* idf[t] = ... for a token of document frequency d and one of document frequency e
ComputeIdf ==
    /\ i_pc = "call"
    /\ i_text' = <<IdfTextMicro(i_n, i_d), IdfTextMicro(i_n, i_e)>>
    /\ i_json' = <<IdfJsonMicro(i_n, i_d), IdfJsonMicro(i_n, i_e)>>
    /\ i_pc' = "done"
    /\ UNCHANGED <<i_n, i_d, i_e, engineVars, queryVars, windowVars, extractVars, budgetVars,
                   cosVars, callerVars, appVars, chunkVars>>

NextIdf == ComputeIdf

SpecIdf == InitIdf /\ [][NextIdf]_vars

----------------------------------------------------------------------------
(* SpecCosine: _cosine_sim on two dicts of nonnegative floats              *)

VecTokens == {"t", "u", "v"}

\* 0.0, 1.0 and 1.5
Weights == {0, One, One + One \div 2}

\* a dict: distinct keys in insertion order, each with a weight
Dicts ==
    {d \in SeqsOf([t : VecTokens, v : Weights], 0, Cardinality(VecTokens)) :
        \A k, l \in 1..Len(d) : k # l => d[k].t # d[l].t}

InitCosine ==
    /\ EngineIdle /\ params = JsonParams
    /\ c_a \in Dicts
    /\ c_b \in Dicts
    /\ c_ab = 0 /\ c_ba = 0 /\ c_aa = 0 /\ c_pc = "call"
    /\ QueryIdle /\ WindowIdle /\ ExtractIdle /\ BudgetIdle /\ IdfIdle /\ CallersIdle
    /\ AppIdle /\ ChunksIdle

Cosine ==
    /\ c_pc = "call"
    /\ c_ab' = CosineSimFloat(c_a, c_b)
    /\ c_ba' = CosineSimFloat(c_b, c_a)
    /\ c_aa' = CosineSimFloat(c_a, c_a)
    /\ c_pc' = "done"
    /\ UNCHANGED <<c_a, c_b, engineVars, queryVars, windowVars, extractVars, budgetVars,
                   idfVars, callerVars, appVars, chunkVars>>

NextCosine == Cosine

SpecCosine == InitCosine /\ [][NextCosine]_vars

----------------------------------------------------------------------------
(* SpecCallers: threads that query one engine instance at the same time,   *)
(* every call split at its reads of self.chunks and self.idf               *)

CallerQueries == { <<"a">>, <<"A", " ", "b">> }

CallerTopKs == {1, MaxTopK}

InitCallers ==
    /\ InitJson
    /\ locals = [c \in Callers |-> IdleFrame]
    /\ built = [chunks |-> chunks, idf |-> idf]
    /\ QueryIdle /\ WindowIdle /\ ExtractIdle /\ BudgetIdle /\ IdfIdle /\ CosIdle /\ AppIdle
    /\ ChunksIdle

CallerFrame == <<engineVars, built, queryVars, windowVars, extractVars, budgetVars, idfVars,
                 cosVars, appVars, chunkVars>>

\* a caller enters retrieve or generate_answer
Call(c) ==
    /\ locals[c].pc = "idle"
    /\ \E op \in {"retrieve", "generate_answer"}, query \in CallerQueries,
          top_k \in CallerTopKs :
        locals' = [locals EXCEPT ![c] =
            [IdleFrame EXCEPT !.pc = "vec", !.op = op, !.query = query, !.top_k = top_k,
                              !.max_context_chars = MaxBudget, !.return_debug = TRUE]]
    /\ UNCHANGED CallerFrame

\* q_tokens = tokenize(query); q_vec = self._tfidf_vec(q_tokens)
Vectorize(c) ==
    /\ locals[c].pc = "vec"
    /\ locals' = [locals EXCEPT ![c].pc = "loop",
                                ![c].q_vec = _tfidf_vec(idf, tokenize(locals[c].query))]
    /\ UNCHANGED CallerFrame

\* for i, ch in enumerate(self.chunks): one chunk
ScoreChunk(c) ==
    /\ locals[c].pc = "loop"
    /\ locals[c].k < Len(chunks)
    /\ locals' = [locals EXCEPT ![c] = ScoreStep(@, chunks, idf)]
    /\ UNCHANGED CallerFrame

\* scored.sort(...); results = [(self.chunks[i], score) for i, score in scored[:top_k]]
SortSlice(c) ==
    /\ locals[c].pc = "loop"
    /\ ~(locals[c].k < Len(chunks))
    /\ LET sorted == SortDesc(locals[c].scored, <<>>)
       IN  locals' = [locals EXCEPT
                ![c].pc = IF locals[c].op = "retrieve" THEN "ret" ELSE "answer",
                ![c].scored = sorted,
                ![c].results = WithChunks(chunks, Truncate(sorted, locals[c].top_k))]
    /\ UNCHANGED CallerFrame

\* generate_answer behind its call of retrieve
ExtractAnswer(c) ==
    /\ locals[c].pc = "answer"
    /\ locals' = [locals EXCEPT
            ![c].pc = "ret",
            ![c].out = AnswerFrom(locals[c].results, locals[c].max_context_chars,
                                  locals[c].return_debug)]
    /\ UNCHANGED CallerFrame

\* the call returns; the frame is gone
CallerReturn(c) ==
    /\ locals[c].pc = "ret"
    /\ locals' = [locals EXCEPT ![c] = IdleFrame]
    /\ UNCHANGED CallerFrame

NextCallers ==
    \E c \in Callers :
        \/ Call(c)
        \/ Vectorize(c)
        \/ ScoreChunk(c)
        \/ SortSlice(c)
        \/ ExtractAnswer(c)
        \/ CallerReturn(c)

SpecCallers == InitCallers /\ [][NextCallers]_vars

----------------------------------------------------------------------------
(* SpecApp: app.py, the pipelines and the step /7-get-exploit.  The server *)
(* runs its handlers in threads; GetExploit.post is split at its accesses  *)
(* to the globals PIPELINES and RAG_INDEX.                                 *)

\* the arguments GetExploit.post gives generate_answer
AppTopK == 1
AppMaxContextChars == 10000

PipelineIds == {"p1"}

\* a pipeline_id that no pipeline has
UnknownId == "p0"

\* cve_text of a pipeline: "", "a", "b", "z"
CveTexts == { <<>>, <<"a">>, <<"b">>, <<"z">> }

\* what parse_llama_json gives /5-generate-poc: a dict, possibly {}
EmptyDict == [kind |-> "dict", empty |-> TRUE]
LlmPocs == {EmptyDict, [kind |-> "dict", empty |-> FALSE]}

\* the truth value of a poc, of a query, of an answer
Truthy(v) == v \notin {NoneVal, EmptyDict, Text(<<>>)}

\* rag.txt as deployed: a record with an exploit example and one without
AppEntries ==
    << Rec(<<"a">>, <<>>, <<"x">>, <<>>), Rec(<<"b">>, <<>>, <<>>, <<>>) >>

CorpusFiles ==
    { [state |-> "missing"], [state |-> "malformed"], [state |-> "not_array"],
      [state |-> "array", entries |-> AppEntries] }

\* what reading and parsing the file raises, "" if nothing
LoadError(file) ==
    CASE file.state = "missing" -> "FileNotFoundError"
      [] file.state = "malformed" -> "JSONDecodeError"
      [] file.state = "not_array" -> "ValueError"
      [] OTHER -> ""

\* the instance number n that from_json_file builds of a list of records
EngineOf(n, entries) ==
    LET cs == load_chunks_from_json_file(entries)
        nn == Max2(Len(cs), 1)
    IN  [kind |-> "instance", id |-> n, chunks |-> cs, N |-> nn,
         idf |-> _compute_idf_local(nn, _build_df_local(cs))]

\* mutant: a file that cannot be loaded gives an index without chunks
FromJsonFileLenient(file, n) ==
    [raised |-> "",
     self |-> EngineOf(n, IF LoadError(file) = "" THEN file.entries ELSE <<>>)]

\* ContextFileRAG.from_json_file: the exception it raises or the instance it returns
from_json_file(file, n) ==
    IF LoadError(file) # ""
    THEN [raised |-> LoadError(file), self |-> NoneVal]
    ELSE [raised |-> "", self |-> EngineOf(n, file.entries)]

\* (result.get("answer") or "").strip()
StripAnswer(answer) == IF answer.msg = "" THEN Text(Strip(answer.chars)) ELSE answer

InitApp ==
    /\ EngineIdle /\ params = JsonParams
    /\ PIPELINES = [id \in {} |-> NoneVal]
    /\ RAG_INDEX = NoneVal
    /\ corpus_file \in CorpusFiles
    /\ frames = [h \in Handlers |-> NoRequest]
    /\ constructions = 0
    /\ failed = FALSE
    /\ QueryIdle /\ WindowIdle /\ ExtractIdle /\ BudgetIdle /\ IdfIdle /\ CosIdle
    /\ CallersIdle /\ ChunksIdle

AppFrame == <<engineVars, queryVars, windowVars, extractVars, budgetVars, idfVars, cosVars,
              callerVars, chunkVars>>

\* /1-pipeline/start
StartPipeline ==
    /\ \E id \in PipelineIds \ DOMAIN PIPELINES, cve_text \in CveTexts :
        PIPELINES' = [k \in DOMAIN PIPELINES \cup {id} |->
            IF k = id
            THEN [cve_text |-> cve_text, poc |-> NoneVal, rag_debug |-> NoneVal,
                  status |-> "created"]
            ELSE PIPELINES[k]]
    /\ UNCHANGED <<RAG_INDEX, corpus_file, frames, constructions, failed, AppFrame>>

\* /2-parse-cve
ParseCVE ==
    /\ \E id \in DOMAIN PIPELINES :
        PIPELINES' = [PIPELINES EXCEPT ![id].status = "cve_parsed"]
    /\ UNCHANGED <<RAG_INDEX, corpus_file, frames, constructions, failed, AppFrame>>

\* /5-generate-poc
GeneratePoC ==
    /\ \E id \in DOMAIN PIPELINES, poc \in LlmPocs :
        PIPELINES' = [PIPELINES EXCEPT ![id].poc = poc, ![id].status = "poc_generated"]
    /\ UNCHANGED <<RAG_INDEX, corpus_file, frames, constructions, failed, AppFrame>>

\* the operator of the server puts a well-formed rag.txt in place
InstallCorpus ==
    /\ corpus_file.state # "array"
    /\ corpus_file' = [state |-> "array", entries |-> AppEntries]
    /\ UNCHANGED <<PIPELINES, RAG_INDEX, frames, constructions, failed, AppFrame>>

\* api.abort(code, ...) or an uncaught exception: the request ends with this code
Aborted(f, code) == [f EXCEPT !.pc = "done", !.code = code]

\* mutant: the stored poc is not looked at, the engine is asked every time
LookupAlwaysQuery(pipelines, pipeline_id) ==
    LET f == [NoRequest EXCEPT !.pipeline_id = pipeline_id]
    IN  IF pipeline_id \notin DOMAIN pipelines THEN Aborted(f, 404)
        ELSE IF ~Truthy(Text(pipelines[pipeline_id].cve_text)) THEN Aborted(f, 404)
        ELSE [f EXCEPT !.pc = "check_index", !.query = pipelines[pipeline_id].cve_text]

\* GetExploit.post up to the call of _get_rag_index: the frame it leaves
Lookup(pipelines, pipeline_id) ==
    LET f == [NoRequest EXCEPT !.pipeline_id = pipeline_id]
    IN  IF pipeline_id \notin DOMAIN pipelines THEN Aborted(f, 404)
        ELSE IF Truthy(pipelines[pipeline_id].poc)
        THEN [f EXCEPT !.pc = "status", !.had_poc = TRUE,
                       !.exploit = pipelines[pipeline_id].poc]
        ELSE IF ~Truthy(Text(pipelines[pipeline_id].cve_text)) THEN Aborted(f, 404)
        ELSE [f EXCEPT !.pc = "check_index", !.query = pipelines[pipeline_id].cve_text]

Request(h) ==
    /\ frames[h].pc = "idle"
    /\ \E pipeline_id \in PipelineIds \cup {UnknownId} :
        frames' = [frames EXCEPT ![h] = Lookup(PIPELINES, pipeline_id)]
    /\ UNCHANGED <<PIPELINES, RAG_INDEX, corpus_file, constructions, failed, AppFrame>>

\* _get_rag_index: if RAG_INDEX is None
CheckIndex(h) ==
    /\ frames[h].pc = "check_index"
    /\ frames' = [frames EXCEPT ![h].pc =
                      IF RAG_INDEX = NoneVal THEN "check_file" ELSE "return_index"]
    /\ UNCHANGED <<PIPELINES, RAG_INDEX, corpus_file, constructions, failed, AppFrame>>

\* _get_rag_index: if not json_txt_path.is_file(): raise FileNotFoundError
CheckFile(h) ==
    /\ frames[h].pc = "check_file"
    /\ IF corpus_file.state = "missing"
       THEN /\ frames' = [frames EXCEPT ![h] = Aborted(@, 500)]
            /\ failed' = TRUE
       ELSE /\ frames' = [frames EXCEPT ![h].pc = "construct"]
            /\ UNCHANGED failed
    /\ UNCHANGED <<PIPELINES, RAG_INDEX, corpus_file, constructions, AppFrame>>

\* _get_rag_index: the call ContextFileRAG.from_json_file(...)
Construct(h) ==
    /\ frames[h].pc = "construct"
    /\ LET r == from_json_file(corpus_file, constructions + 1)
       IN  IF r.raised # ""
           THEN /\ frames' = [frames EXCEPT ![h] = Aborted(@, 500)]
                /\ failed' = TRUE
                /\ UNCHANGED constructions
           ELSE /\ frames' = [frames EXCEPT ![h].pc = "assign", ![h].instance = r.self]
                /\ constructions' = constructions + 1
                /\ UNCHANGED failed
    /\ UNCHANGED <<PIPELINES, RAG_INDEX, corpus_file, AppFrame>>

\* _get_rag_index: RAG_INDEX = <the instance>
AssignIndex(h) ==
    /\ frames[h].pc = "assign"
    /\ RAG_INDEX' = frames[h].instance
    /\ frames' = [frames EXCEPT ![h].pc = "return_index"]
    /\ UNCHANGED <<PIPELINES, corpus_file, constructions, failed, AppFrame>>

\* _get_rag_index: return RAG_INDEX
ReturnIndex(h) ==
    /\ frames[h].pc = "return_index"
    /\ frames' = [frames EXCEPT ![h].pc = "answer", ![h].rag = RAG_INDEX]
    /\ UNCHANGED <<PIPELINES, RAG_INDEX, corpus_file, constructions, failed, AppFrame>>

\* result = rag.generate_answer(...); exploit = ...; if not exploit: api.abort(404, ...)
AskEngine(h) ==
    /\ frames[h].pc = "answer"
    /\ LET result == generate_answer(frames[h].rag.chunks, frames[h].rag.idf, frames[h].query,
                                     AppTopK, AppMaxContextChars, TRUE)
           exploit == StripAnswer(result.answer)
           f == [frames[h] EXCEPT !.queried = TRUE, !.exploit = exploit, !.debug = result.debug]
       IN  frames' = [frames EXCEPT ![h] =
                         IF ~Truthy(exploit) THEN Aborted(f, 404) ELSE [f EXCEPT !.pc = "store"]]
    /\ UNCHANGED <<PIPELINES, RAG_INDEX, corpus_file, constructions, failed, AppFrame>>

\* p['poc'] = exploit; p['rag_debug'] = result.get("debug", "")
Store(h) ==
    /\ frames[h].pc = "store"
    /\ PIPELINES' = [PIPELINES EXCEPT ![frames[h].pipeline_id].poc = frames[h].exploit,
                                      ![frames[h].pipeline_id].rag_debug = frames[h].debug]
    /\ frames' = [frames EXCEPT ![h].pc = "status"]
    /\ UNCHANGED <<RAG_INDEX, corpus_file, constructions, failed, AppFrame>>

\* p['status'] = 'exploit_returned'; return {..., 'exploit': exploit, 'done': True}
SetStatus(h) ==
    /\ frames[h].pc = "status"
    /\ PIPELINES' = [PIPELINES EXCEPT ![frames[h].pipeline_id].status = "exploit_returned"]
    /\ frames' = [frames EXCEPT ![h].pc = "done", ![h].code = 200]
    /\ UNCHANGED <<RAG_INDEX, corpus_file, constructions, failed, AppFrame>>

\* the response is sent; the handler is free for the next request
Respond(h) ==
    /\ frames[h].pc = "done"
    /\ frames' = [frames EXCEPT ![h] = NoRequest]
    /\ UNCHANGED <<PIPELINES, RAG_INDEX, corpus_file, constructions, failed, AppFrame>>

GetExploit(h) ==
    \/ Request(h)
    \/ CheckIndex(h)
    \/ CheckFile(h)
    \/ Construct(h)
    \/ AssignIndex(h)
    \/ ReturnIndex(h)
    \/ AskEngine(h)
    \/ Store(h)
    \/ SetStatus(h)
    \/ Respond(h)

NextApp ==
    \/ StartPipeline
    \/ ParseCVE
    \/ GeneratePoC
    \/ InstallCorpus
    \/ \E h \in Handlers : GetExploit(h)

SpecApp == InitApp /\ [][NextApp]_vars

----------------------------------------------------------------------------
(* SpecChunks: _make_chunks on a raw text                                  *)

\* a word character, another one, the blank, the line break, a non-word character
ChunkAlphabet == {"a", "b", " ", "\n", "."}

ChunkParams ==
    {[max_chunk_chars |-> m[1], overlap_chars |-> m[2], paragraph_mode |-> pm] :
        m \in {<<1, 0>>, <<2, 1>>, <<3, 0>>, <<5, 0>>}, pm \in BOOLEAN}

InitChunks ==
    /\ EngineIdle /\ params = JsonParams
    /\ QueryIdle /\ WindowIdle /\ ExtractIdle /\ BudgetIdle /\ IdfIdle /\ CosIdle
    /\ CallersIdle /\ AppIdle
    /\ k_text \in Strings(ChunkAlphabet, 0, MaxRaw)
    /\ k_params \in ChunkParams
    /\ k_chunks = <<>>
    /\ k_pc = "call"

\* _make_chunks(text)
MakeChunks ==
    /\ k_pc = "call"
    /\ k_chunks' = _make_chunks(k_text, k_params)
    /\ k_pc' = "done"
    /\ UNCHANGED <<k_text, k_params, engineVars, queryVars, windowVars, extractVars,
                   budgetVars, idfVars, cosVars, callerVars, appVars>>

NextChunks == MakeChunks

SpecChunks == InitChunks /\ [][NextChunks]_vars

----------------------------------------------------------------------------
(* The claims                                                              *)

\* the similarity of chunk number i (0-based) to the query of the last call
ScoreOf(i) ==
    _cosine_sim(_tfidf_vec(idf, tokenize(call.query)), _tfidf_vec(idf, chunks[i + 1].tokens))

\* the chunks whose similarity to the query is > 0
Positive == {i \in 0..(Len(chunks) - 1) : ScoreOf(i) > 0}

\* chunk i with score s ranks before chunk j with score t in the reference ranking
RanksBefore(i, s, j, t) == s > t \/ (s = t /\ i < j)

\* C1: retrieve called with top_k <= 0 (zero or negative) returns the empty
\* sequence, however many chunks have a positive similarity to the query.
C1_NonPositiveTopKEmpty ==
    (call.op = "retrieve" /\ call.top_k <= 0) => results = <<>>

\* C2: for top_k >= 1 retrieve returns exactly the first min(top_k, m) entries
\* of the reference ranking of the m chunks with similarity > 0: scores do not
\* increase along the result, equal scores appear in chunk order, no chunk with
\* score <= 0 appears, every chunk left out ranks behind every chunk returned,
\* and the result is no longer than top_k.
C2_TopKOfReferenceRanking ==
    (call.op = "retrieve" /\ call.top_k >= 1) =>
        /\ Len(scored) = Min2(call.top_k, Cardinality(Positive))
        /\ Len(results) = Len(scored)
        /\ \A k \in 1..Len(scored) :
            /\ scored[k].i \in Positive
            /\ scored[k].score = ScoreOf(scored[k].i)
            /\ results[k] = [chunk |-> chunks[scored[k].i + 1], score |-> scored[k].score]
        /\ \A k, l \in 1..Len(scored) :
            k < l => RanksBefore(scored[k].i, scored[k].score, scored[l].i, scored[l].score)
        /\ \A i \in Positive :
            (\A k \in 1..Len(scored) : scored[k].i # i) =>
                \A k \in 1..Len(scored) :
                    RanksBefore(scored[k].i, scored[k].score, i, ScoreOf(i))

\* a call with top_k >= 1 that returns two chunks of equal score and leaves a
\* chunk of positive score out
C2_Witness ==
    /\ call.op = "retrieve" /\ call.top_k >= 1
    /\ Len(scored) >= 2
    /\ scored[1].score = scored[2].score
    /\ Cardinality(Positive) > Len(scored)

\* s starts with p
IsPrefix(p, s) == Len(p) <= Len(s) /\ SubSeq(s, 1, Len(p)) = p

\* all snippets of the budget loop, each followed by the separator
RECURSIVE Glued(_)
Glued(snippets) ==
    IF snippets = <<>> THEN <<>> ELSE Head(snippets) \o <<"\n", "\n">> \o Glued(Tail(snippets))

C4_FirstSpanWholeWhenItFits ==
    (b_pc = "done" /\ b_out.msg = "" /\ Len(b_snippets[1]) <= b_max) =>
        IsPrefix(Strip(b_snippets[1]), b_out.chars)

----------------------------------------------------------------------------

\* the positions at which pat occurs in s (0-based)
Occurrences(s, pat) == {k \in 0..Len(s) : StartsWithAt(s, pat, k)}

\* the least element of a non-empty set of numbers
Least(S) == CHOOSE k \in S : \A m \in S : k <= m

\* s[k:] for 0 <= k
From(s, k) == SubSeq(s, k + 1, Len(s))

\* the text behind the first start marker, without its leading "\n", "\r", " "
TailOf(text) ==
    LET after == From(text, Least(Occurrences(text, Marker)) + Len(Marker))
        lead == Least({k \in 0..Len(after) : k = Len(after) \/ after[k + 1] \notin LeadStripChars})
    IN  From(after, lead)

\* the positions of TailOf(text) at which some end marker occurs
EndPositions(text) ==
    UNION {Occurrences(TailOf(text), EndMarkers[m]) : m \in 1..Len(EndMarkers)}

\* C5: the extracted span is empty when the start marker does not occur;
\* otherwise it is the text behind the first start marker, without leading
\* newlines and spaces, cut at the earliest position at which an end marker
\* occurs and right-trimmed.  So a span holds no end marker and nothing
\* behind one, and nothing that precedes the start marker.
C5_SpanBetweenMarkers ==
    x_pc = "done" =>
        IF Occurrences(x_text, Marker) = {} THEN x_span = <<>>
        ELSE LET tail == TailOf(x_text)
                 ends == EndPositions(x_text)
                 upto == IF ends = {} THEN tail ELSE SubSeq(tail, 1, Least(ends))
             IN  /\ IsPrefix(x_span, upto)
                 /\ ends = {} => x_span = tail
                 /\ ends # {} =>
                     /\ \A k \in (Len(x_span) + 1)..Len(upto) : upto[k] \in WhiteSpace
                     /\ x_span # <<>> => x_span[Len(x_span)] \notin WhiteSpace
                 /\ \A m \in 1..Len(EndMarkers) : Occurrences(x_span, EndMarkers[m]) = {}
                 /\ Len(x_span) <= Len(x_text) - Least(Occurrences(x_text, Marker)) - Len(Marker)

\* a text with the start marker and an end marker behind it, cut to a span
\* that is not empty and was right-trimmed
C5_Witness ==
    /\ x_pc = "done"
    /\ Occurrences(x_text, Marker) # {}
    /\ EndPositions(x_text) # {}
    /\ x_span # <<>>
    /\ Len(x_span) < Least(EndPositions(x_text))

----------------------------------------------------------------------------

\* the debug trace the claim describes for the retrieved list: one entry per
\* chunk, in ranked order, with the rounded score and the preview of the text
TraceOf(retrieved) ==
    [k \in 1..Len(retrieved) |->
        [score |-> (retrieved[k].score + 5) \div 10,
         snippet |-> IF Len(retrieved[k].chunk.text) > PreviewLen
                     THEN SubSeq(retrieved[k].chunk.text, 1, PreviewLen) \o <<".", ".", ".">>
                     ELSE retrieved[k].chunk.text]]

\* no retrieved chunk yields a span
NoSpan == \A k \in 1..Len(results) : extract_after_marker(results[k].chunk.text) = <<>>

C7_VectorSparse ==
    call.op = "retrieve" =>
        LET q_vec == _tfidf_vec(idf, tokenize(call.query))
        IN  \A t \in DOMAIN q_vec.num : q_vec.num[t] # 0

----------------------------------------------------------------------------

\* C8: _sliding_windows terminates for every text and every integer
\* max_chunk_chars and overlap_chars, overlap_chars >= max_chunk_chars
\* included: the call returns, every pass of the loop that stays in the loop
\* moves the start of the window forward by at least 1, and the loop is left
\* as soon as a window ends at the end of the text.
C8_SlidingWindowsTerminates ==
    /\ <>(w_pc = "done")
    /\ [][(w_pc = "loop" /\ w_pc' = "loop") => w_i' >= w_i + 1]_vars
    /\ [](w_pc = "loop" => \A k \in 1..Len(w_spans) : w_spans[k][2] # Len(w_text))

\* a call with overlap_chars >= max_chunk_chars >= 1 that went through the
\* loop at least three times and returned
C8_Witness ==
    /\ w_pc = "done"
    /\ params.max_chunk_chars >= 1
    /\ params.overlap_chars >= params.max_chunk_chars
    /\ Len(w_spans) >= 3

\* the concatenation of a list of strings
RECURSIVE Concat(_)
Concat(parts) == IF parts = <<>> THEN <<>> ELSE Head(parts) \o Concat(Tail(parts))

WhitespaceFree(text) == \A k \in 1..Len(text) : text[k] \notin WhiteSpace

\* ceil(n / w)
CeilDiv(n, w) == (n + w - 1) \div w

\* C9: for a text without white space of length n >= 1 and max_chunk_chars =
\* w >= 1: with overlap_chars = 0 the call returns exactly ceil(n / w) windows
\* whose concatenation is the text; with any overlap_chars >= 0 every position
\* of the text lies in a window, the starts of consecutive windows differ by
\* max(w - overlap_chars, 1), and the returned windows are the windows taken.
C9_WindowsCoverText ==
    (/\ w_pc = "done"
     /\ WhitespaceFree(w_text)
     /\ Len(w_text) >= 1
     /\ params.max_chunk_chars >= 1
     /\ params.overlap_chars >= 0) =>
        /\ params.overlap_chars = 0 =>
            /\ Len(w_ret) = CeilDiv(Len(w_text), params.max_chunk_chars)
            /\ Concat(w_ret) = w_text
        /\ \A pos \in 0..(Len(w_text) - 1) :
            \E k \in 1..Len(w_spans) : w_spans[k][1] <= pos /\ pos < w_spans[k][2]
        /\ \A k \in 1..(Len(w_spans) - 1) :
            w_spans[k + 1][1] - w_spans[k][1] =
                Max2(params.max_chunk_chars - params.overlap_chars, 1)
        /\ Len(w_ret) = Len(w_spans)
        /\ \A k \in 1..Len(w_spans) :
            w_ret[k] = SubSeq(w_text, w_spans[k][1] + 1, w_spans[k][2])

\* a text of 5 characters cut into 3 windows of at most 2 characters
C9_Witness ==
    /\ w_pc = "done"
    /\ WhitespaceFree(w_text)
    /\ Len(w_text) = 5
    /\ params.max_chunk_chars = 2
    /\ params.overlap_chars = 0
    /\ Len(w_ret) = 3

----------------------------------------------------------------------------

\* the tokens that occur in at least one chunk
AllTokens == UNION {TokenSet(chunks[k].tokens) : k \in 1..Len(chunks)}

\* the number of chunks that hold token t at least once
ChunksWith(t) == Cardinality({k \in 1..Len(chunks) : t \in TokenSet(chunks[k].tokens)})

\* C10: after construction by either path the keys of the IDF mapping are the
\* tokens that occur in at least one chunk, and the document frequency used
\* for a token is the number of chunks that hold it at least once (several
\* occurrences in one chunk count once), so 1 <= df[t] <= number of chunks.
C10_IndexStatistics ==
    /\ DOMAIN idf = AllTokens
    /\ DOMAIN df_cache = AllTokens
    /\ \A t \in AllTokens :
        /\ df_cache[t] = ChunksWith(t)
        /\ 1 <= df_cache[t]
        /\ df_cache[t] <= Len(chunks)
        /\ path = "text" => idf[t] = IdfText(Len(chunks), ChunksWith(t))
        /\ path = "json" => idf[t] = IdfJson(N, ChunksWith(t))

\* an index over at least two chunks, one of which holds a token twice that
\* the other chunks do not all hold
C10_Witness ==
    /\ Len(chunks) >= 2
    /\ \E k \in 1..Len(chunks) : \E t \in TokenSet(chunks[k].tokens) :
        /\ Count(chunks[k].tokens, t) >= 2
        /\ df_cache[t] < Len(chunks)

----------------------------------------------------------------------------
\* C11: for a fixed chunk count N both smoothed formulas give a weight > 0
\* for every document frequency d in 0..N, and a strictly smaller weight to
\* the larger of two document frequencies.
C11_IdfPositiveDecreasing ==
    i_pc = "done" =>
        /\ i_text[1] > 0 /\ i_json[1] > 0
        /\ i_d < i_e => (i_text[1] > i_text[2] /\ i_json[1] > i_json[2])

\* a token that occurs in every chunk, next to one that occurs in all but one
C11_Witness ==
    /\ i_pc = "done" /\ i_n >= 2 /\ i_e = i_n /\ i_d = i_n - 1
    /\ i_json[2] > 0 /\ i_json[1] > i_json[2] /\ i_text[1] > i_text[2]

----------------------------------------------------------------------------
\* the norm of a dict is not zero: it holds a weight that is not zero
NonZero(a) == \E k \in 1..Len(a) : a[k].v # 0

\* C12: for any two dicts a, b of nonnegative weights _cosine_sim(a, b) equals
\* _cosine_sim(b, a) and lies between 0 and 1, and _cosine_sim(a, a) is 1 when
\* the norm of a is not zero.
C12_CosineSymmetricBoundedReflexive ==
    c_pc = "done" =>
        /\ c_ab = c_ba
        /\ 0 <= c_ab /\ c_ab <= One
        /\ NonZero(c_a) => c_aa = One

----------------------------------------------------------------------------
\* the tokens and the vector of the query of the last call
QueryTokens == tokenize(call.query)
QueryVec == _tfidf_vec(idf, QueryTokens)

\* the vector of chunk number i (0-based)
ChunkVec(i) == _tfidf_vec(idf, chunks[i + 1].tokens)

\* v is the empty vector, or its norm is zero
Degenerate(v) == DOMAIN v.num = {} \/ \A t \in DOMAIN v.num : v.num[t] = 0

\* C13: no query divides by zero: the term frequencies of an empty token list
\* are the empty vector (the divisor is 1), the similarity of an empty or
\* zero-norm vector to any vector is 0, the divisor na * nb is not zero wherever
\* the quotient is taken, and on an engine without chunks, for an empty query
\* and for a query of tokens the index does not hold retrieve returns the
\* empty sequence.
C13_NoDivisionByZero ==
    call # Idle =>
        /\ _tf(QueryTokens).total > 0
        /\ QueryTokens = <<>> => DOMAIN _tf(QueryTokens).num = {} /\ DOMAIN QueryVec.num = {}
        /\ \A i \in 0..(Len(chunks) - 1) :
            /\ _tf(chunks[i + 1].tokens).total > 0
            /\ IF Degenerate(QueryVec) \/ Degenerate(ChunkVec(i))
               THEN ScoreOf(i) = 0
               ELSE ISqrt(NormSq(QueryVec) * NormSq(ChunkVec(i))) > 0
        /\ (chunks = <<>> \/ \A t \in TokenSet(QueryTokens) : t \notin DOMAIN idf) =>
               /\ scored = <<>>
               /\ results = <<>>

\* a query of one token that no chunk holds, put to an engine with chunks
C13_Witness ==
    /\ call # Idle /\ call.top_k >= 1
    /\ chunks # <<>>
    /\ QueryTokens # <<>>
    /\ \A t \in TokenSet(QueryTokens) : t \notin DOMAIN idf
    /\ DOMAIN QueryVec.num # {} /\ Degenerate(QueryVec)
    /\ results = <<>>

----------------------------------------------------------------------------
\* C14: under every interleaving of retrieve and generate_answer calls the
\* chunk list (texts, tokens, order) and the IDF mapping of the instance stay
\* as constructed, and every call returns what the same call returns when it
\* runs alone on the instance as constructed.
C14_QueriesLeaveEngineUnchanged ==
    /\ chunks = built.chunks
    /\ idf = built.idf
    /\ \A c \in Callers :
        locals[c].pc = "ret" =>
            /\ locals[c].results =
                   retrieve(built.chunks, built.idf, locals[c].query, locals[c].top_k)
            /\ locals[c].op = "generate_answer" =>
                   locals[c].out =
                       generate_answer(built.chunks, built.idf, locals[c].query,
                                       locals[c].top_k, locals[c].max_context_chars,
                                       locals[c].return_debug)

\* one caller returns two chunks while the other one is in the middle of its loop
C14_Witness ==
    \E c, d \in Callers :
        /\ c # d
        /\ locals[c].pc = "ret" /\ Len(locals[c].results) = 2
        /\ locals[c].op = "generate_answer" /\ locals[c].out.answer.msg = ""
        /\ locals[d].pc = "loop" /\ locals[d].k = 1 /\ Len(chunks) = 2

----------------------------------------------------------------------------
\* the instances that handlers hold or that RAG_INDEX names
Held ==
    {frames[h].rag : h \in Handlers} \cup {frames[h].instance : h \in Handlers}
        \cup {RAG_INDEX}

\* C15: the cached engine instance is constructed at most once per process:
\* however concurrent first requests interleave, from_json_file returns an
\* instance to at most one of them, and all callers of _get_rag_index receive
\* the same instance.
C15_IndexConstructedOnce ==
    /\ constructions <= 1
    /\ \A g, h \in Handlers :
        (frames[g].rag # NoneVal /\ frames[h].rag # NoneVal) =>
            frames[g].rag.id = frames[h].rag.id

----------------------------------------------------------------------------
\* the instance from_json_file builds of the deployed corpus, whatever its number
Complete(i) ==
    /\ i.chunks = load_chunks_from_json_file(AppEntries)
    /\ Len(i.chunks) = Len(AppEntries)
    /\ DOMAIN i.idf = UNION {TokenSet(i.chunks[k].tokens) : k \in 1..Len(i.chunks)}

\* C16: a configuration error (rag.txt missing, not JSON, not a JSON array)
\* makes the construction raise and yields no instance: the failed request
\* holds none, RAG_INDEX stays None as long as the error lasts, and a call
\* after the failure constructs again: whatever instance a handler or
\* RAG_INDEX holds is completely built.
C16_FailedConstructionYieldsNoInstance ==
    /\ corpus_file.state # "array" => Held = {NoneVal}
    /\ (failed /\ constructions = 0) => RAG_INDEX = NoneVal
    /\ \A h \in Handlers :
        frames[h].code = 500 =>
            /\ frames[h].rag = NoneVal /\ frames[h].instance = NoneVal
            /\ ~frames[h].queried
    /\ \A i \in Held \ {NoneVal} : Complete(i)

\* after a failed construction the file was put right, and a later request
\* has received a newly built instance
C16_Witness ==
    /\ failed
    /\ RAG_INDEX # NoneVal
    /\ \E h \in Handlers :
        /\ frames[h].pc = "answer" /\ frames[h].rag = RAG_INDEX /\ Complete(frames[h].rag)
        /\ \A g \in Handlers \ {h} : frames[g].pc = "idle"

\* the answers of generate_answer that say that nothing was found
NothingFound == {MsgNoContext, MsgNoSection}

\* C18: when the pipeline has no stored poc and generate_answer finds no
\* relevant chunk or no section behind the marker, /7-get-exploit answers 404,
\* stores no poc and leaves the status of the pipeline as it was.
C18_NothingFoundGives404 ==
    \A h \in Handlers :
        (frames[h].pc = "done" /\ frames[h].queried /\ frames[h].exploit \in NothingFound) =>
            /\ frames[h].code = 404
            /\ PIPELINES[frames[h].pipeline_id].poc \notin NothingFound
            /\ PIPELINES[frames[h].pipeline_id].status # "exploit_returned"

\* the answer generate_answer(cve_text, top_k=1, ...) gives on the deployed corpus
AnswerFor(cve_text) ==
    LET rag == EngineOf(1, AppEntries)
    IN  generate_answer(rag.chunks, rag.idf, cve_text, 1, AppMaxContextChars, TRUE).answer

\* one step of a handler h, seen from outside
C19_Step(h) ==
    LET f == frames[h]
        g == frames'[h]
    IN  \* the request arrives
        /\ (f.pc = "idle" /\ g.pc # "idle") =>
            /\ PIPELINES' = PIPELINES
            /\ g.pipeline_id \notin DOMAIN PIPELINES => (g.pc = "done" /\ g.code = 404)
            /\ (g.pipeline_id \in DOMAIN PIPELINES /\ Truthy(PIPELINES[g.pipeline_id].poc)) =>
                   /\ g.pc = "status" /\ g.had_poc
                   /\ g.exploit = PIPELINES[g.pipeline_id].poc
            /\ (g.pipeline_id \in DOMAIN PIPELINES /\ ~Truthy(PIPELINES[g.pipeline_id].poc)
                    /\ PIPELINES[g.pipeline_id].cve_text # <<>>) =>
                   g.pc = "check_index"
        \* a request that found a stored poc returns it and never asks the engine
        /\ g.had_poc => (~g.queried /\ g.pc \in {"status", "done"} /\ g.code \in {0, 200})
        /\ (f.had_poc /\ g.pc # "idle") => g.exploit = f.exploit
        /\ f.had_poc =>
               \A id \in DOMAIN PIPELINES : PIPELINES'[id].poc = PIPELINES[id].poc
        \* the answer of the engine is stored
        /\ (f.pc = "store" /\ g.pc # "store") =>
            /\ PIPELINES'[f.pipeline_id].poc = AnswerFor(PIPELINES[f.pipeline_id].cve_text)
            /\ g.exploit = PIPELINES'[f.pipeline_id].poc
        \* the call succeeds
        /\ (f.pc # "done" /\ g.pc = "done" /\ g.code = 200) =>
            /\ PIPELINES'[f.pipeline_id].status = "exploit_returned"
            /\ g.exploit = f.exploit
            /\ f.queried => f.exploit = AnswerFor(PIPELINES[f.pipeline_id].cve_text)

PiecesOf(p, prm) ==
    IF Len(p) <= prm.max_chunk_chars THEN <<p>>
    ELSE _sliding_windows(p, prm.max_chunk_chars, prm.overlap_chars)

\* the pieces of the paragraphs ps[k..] that have a token, each with the number of
\* the paragraph it comes from
RECURSIVE PiecesFrom(_, _, _)
PiecesFrom(ps, k, prm) ==
    IF k > Len(ps) THEN <<>>
    ELSE LET pieces == PiecesOf(ps[k], prm)
             kept == SelectSeq(pieces, LAMBDA t : tokenize(t) # <<>>)
         IN  [j \in 1..Len(kept) |-> [para |-> k, text |-> kept[j]]]
             \o PiecesFrom(ps, k + 1, prm)

\* s occurs in p as a run of consecutive characters
IsSubstring(s, p) ==
    \E i \in 0..(Len(p) - Len(s)) : SubSeq(p, i + 1, i + Len(s)) = s

\* the paragraph is one chunk: it is not longer than max_chunk_chars and has a token
Short(p, prm) == Len(p) <= prm.max_chunk_chars /\ tokenize(p) # <<>>

\* the chunks are, in source order, the pieces of the paragraphs that have a token,
\* each with the tokens of its text; two short paragraphs give two chunks
SequenceOfPieces(ps, ex) ==
    /\ Len(k_chunks) = Len(ex)
    /\ \A i \in 1..Len(ex) :
        /\ k_chunks[i].text = ex[i].text
        /\ k_chunks[i].tokens # <<>>
        /\ k_chunks[i].tokens = tokenize(k_chunks[i].text)
    /\ (Len(ps) = 2 /\ Short(ps[1], k_params) /\ Short(ps[2], k_params))
            => Len(k_chunks) = 2

\* C17, as stated: in paragraph mode the chunks are, in source order, one chunk for
\* each paragraph of length <= max_chunk_chars and the sliding windows of each longer
\* paragraph, without the pieces that have no token; every chunk has a non-empty token
\* sequence equal to tokenize(chunk.text) and contains only tokens of its own
\* paragraph; two paragraphs separated by blank lines yield exactly two chunks.
C17_OnlyTokensOfOwnParagraph ==
    (k_pc = "done" /\ k_params.paragraph_mode) =>
        LET ps == _split_paragraphs(k_text)
            ex == PiecesFrom(ps, 1, k_params)
        IN  /\ SequenceOfPieces(ps, ex)
            /\ \A i \in 1..Len(ex) :
                TokenSet(k_chunks[i].tokens) \subseteq TokenSet(tokenize(ps[ex[i].para]))

\* C17, amended: as above, but only the chunk of a paragraph of length
\* <= max_chunk_chars has the tokens of its paragraph (all of them, in order); a
\* window of a longer paragraph is a run of consecutive characters of its own
\* paragraph, and its tokens are the tokens of that run.
C17_ChunksOfOwnParagraph ==
    (k_pc = "done" /\ k_params.paragraph_mode) =>
        LET ps == _split_paragraphs(k_text)
            ex == PiecesFrom(ps, 1, k_params)
        IN  /\ SequenceOfPieces(ps, ex)
            /\ \A i \in 1..Len(ex) :
                LET own == ps[ex[i].para]
                IN  IF Len(own) <= k_params.max_chunk_chars
                    THEN k_chunks[i].tokens = tokenize(own)
                    ELSE IsSubstring(k_chunks[i].text, own)

\* C17, witness: a text of two paragraphs, one of them longer than max_chunk_chars,
\* has been chunked, and a window holds a token that its paragraph does not have
C17_Witness ==
    /\ k_pc = "done" /\ k_params.paragraph_mode
    /\ LET ps == _split_paragraphs(k_text)
           ex == PiecesFrom(ps, 1, k_params)
       IN  /\ Len(ps) = 2
           /\ Len(k_chunks) > 2
           /\ Len(k_chunks) = Len(ex)
           /\ \E i \in 1..Len(ex) :
               ~(TokenSet(k_chunks[i].tokens) \subseteq TokenSet(tokenize(ps[ex[i].para])))

====
